---- MODULE Spec2Model ----
(***************************************************************************)
(* fbu::ThreadPool and fbu::ThreadPoolJobsExecutor                         *)
(* (include/fbu/thread_pool.hpp), driven by one client thread that         *)
(* constructs the pool, submits jobs directly or through one of two        *)
(* executors, waits for completion and finally destroys the pool, as the   *)
(* test cases do.  Every step of a thread is one atomic access to the      *)
(* shared state or one critical section entered with the mutex already     *)
(* held; acquiring a mutex is a step of its own.                           *)
(***************************************************************************)
EXTENDS Integers, Sequences, FiniteSets, TLC

\* ------------------------------------------------------------------ bounds
MaxWorkers == 2
MaxJobs == 2
MaxSpurious == 1
MaxCount == 3
MaxCallers == 2

\* ------------------------------------------------------------- identities
Client == 0
NoThread == -1
NoJob == -1
EmptyJob == 0
Executors == {"A", "B"}
Direct == "direct"
JobKinds == {Direct} \cup Executors
AllWorkers == 1..MaxWorkers
JCWaiter == 0
JCCallers == 1..MaxCallers

VARIABLES
    numWorkers,       \* mThreads.size()
    wpc,              \* position of every worker in threadExecLoop / grabNextJob
    wjob,             \* lJob held by every worker (NoJob, EmptyJob or a job id)
    mJobsQueue,       \* the queue of pending jobs (job ids, front first)
    mTerminate,
    mNumBusyThreads,
    mJobsQueueMutex,  \* the thread holding the mutex, or NoThread
    mJobAvailableCV,  \* the workers blocked in mJobAvailableCV.wait
    mCompletionCV,    \* the threads blocked in mCompletionCV.wait
    mNumJobs,         \* per executor
    mMutex,           \* per executor: the holder, or NoThread
    mCompletion,      \* per executor: the threads blocked in mCompletion.wait
    cpc,              \* position of the client thread
    carg,             \* the kind of job / the executor of the client's call
    joined,           \* number of workers the destructor has joined
    jobKind,          \* history: kind of every submitted job, by job id
    popLog,           \* history: job ids in the order they were popped
    runs,             \* history: how often the body of each job has run
    finished,         \* history: how often each job has returned to its worker
    lCounter,         \* per kind: the counter the job bodies increment
    spurious,         \* number of spurious wake-ups so far
    assertFail,       \* the assertions of the source that have failed
    jcNumJobs,        \* JobCounter::mNumJobs
    jcMutex,          \* JobCounter::mMutex: the holder, or NoThread
    jcCompletion,     \* JobCounter::mCompletion: the threads blocked in wait
    jcpc,             \* position of every thread calling increment / decrement
    jcwpc,            \* position of the thread calling JobCounter::waitForCompletion
    jcIncLeft,        \* increment() calls not yet started
    jcDecLeft         \* decrement() calls not yet started

poolVars == <<mJobsQueue, mTerminate, mNumBusyThreads, mJobsQueueMutex,
              mJobAvailableCV, mCompletionCV>>
execVars == <<mNumJobs, mMutex, mCompletion>>
workerVars == <<wpc, wjob>>
clientVars == <<cpc, carg, joined>>
histVars == <<jobKind, popLog, runs, finished, lCounter>>
jcVars == <<jcNumJobs, jcMutex, jcCompletion, jcpc, jcwpc, jcIncLeft, jcDecLeft>>
vars == <<numWorkers, wpc, wjob, mJobsQueue, mTerminate, mNumBusyThreads,
          mJobsQueueMutex, mJobAvailableCV, mCompletionCV, mNumJobs, mMutex,
          mCompletion, cpc, carg, joined, jobKind, popLog, runs, finished,
          lCounter, spurious, assertFail, jcNumJobs, jcMutex, jcCompletion,
          jcpc, jcwpc, jcIncLeft, jcDecLeft>>

Workers == 1..numWorkers

\* ------------------------------------------------------- code predicates
\* mutant: the loop condition with && in place of ||
DrainMustWait_And(q, busy) == Len(q) > 0 /\ busy > 0

\* waitForCompletion: while (mJobsQueue.size() > 0 || mNumBusyThreads > 0)
DrainMustWait(q, busy) == Len(q) > 0 \/ busy > 0

\* grabNextJob: the predicate of mJobAvailableCV.wait
JobAvailable(q, term) == Len(q) > 0 \/ term

\* ThreadPoolJobsExecutor::waitForCompletion: the predicate of mCompletion.wait
ExecutorDone(n) == n = 0

\* -------------------------------------------------------------------- Init
\* JobCounter(): mNumJobs{0}, nobody inside a call
JC_Constructed ==
    /\ jcNumJobs = 0
    /\ jcMutex = NoThread
    /\ jcCompletion = {}
    /\ jcpc = [t \in JCCallers |-> "idle"]
    /\ jcwpc = "idle"

\* ThreadPool(pNumThreads) and the executors on it
PoolConstructed ==
    /\ numWorkers \in 1..MaxWorkers
    /\ wpc = [w \in 1..numWorkers |-> "loop"]
    /\ wjob = [w \in 1..numWorkers |-> NoJob]
    /\ mJobsQueue = <<>>
    /\ mTerminate = FALSE
    /\ mNumBusyThreads = 0
    /\ mJobsQueueMutex = NoThread
    /\ mJobAvailableCV = {}
    /\ mCompletionCV = {}
    /\ mNumJobs = [e \in Executors |-> 0]
    /\ mMutex = [e \in Executors |-> NoThread]
    /\ mCompletion = [e \in Executors |-> {}]
    /\ cpc = "idle"
    /\ carg = Direct
    /\ joined = 0
    /\ jobKind = <<>>
    /\ popLog = <<>>
    /\ runs = [j \in 1..MaxJobs |-> 0]
    /\ finished = [j \in 1..MaxJobs |-> 0]
    /\ lCounter = [k \in JobKinds |-> 0]
    /\ spurious = 0
    /\ assertFail = {}

\* the pool and its client; the JobCounter is constructed and never called
Init ==
    /\ PoolConstructed
    /\ JC_Constructed
    /\ jcIncLeft = 0
    /\ jcDecLeft = 0


\* -------------------------------------------------- condition variables
\* notify_one: one of the blocked threads, if any, stops being blocked
NotifyOne(waiters, after) ==
    IF waiters = {} THEN after = {}
    ELSE \E t \in waiters : after = waiters \ {t}

\* notify_all: no thread stays blocked
NotifyAll(waiters) == {}

\* ------------------------------------------------------ ThreadPool::addJob
\* entered by the client directly, or from ThreadPoolJobsExecutor::addJob
TP_addJob_Lock ==
    /\ \/ /\ cpc = "idle"
          /\ Len(jobKind) < MaxJobs
          /\ carg' = Direct
       \/ /\ cpc = "ex_submit"
          /\ carg' = carg
    /\ mJobsQueueMutex = NoThread
    /\ mJobsQueueMutex' = Client
    /\ cpc' = "add_push"
    /\ UNCHANGED <<jcVars, numWorkers, workerVars, mJobsQueue, mTerminate, mNumBusyThreads,
                   mJobAvailableCV, mCompletionCV, execVars, joined, histVars,
                   spurious, assertFail>>

\* mutant: the job is pushed without mJobAvailableCV.notify_one()
TP_addJob_Push_NoNotify ==
    /\ cpc = "add_push"
    /\ mJobsQueue' = Append(mJobsQueue, Len(jobKind) + 1)
    /\ jobKind' = Append(jobKind, carg)
    /\ mJobsQueueMutex' = NoThread
    /\ cpc' = "idle"
    /\ UNCHANGED <<jcVars, numWorkers, workerVars, mTerminate, mNumBusyThreads,
                   mJobAvailableCV, mCompletionCV, execVars, carg, joined, popLog,
                   runs, finished, lCounter, spurious, assertFail>>

\* mutant: the job is put at the front of the queue
TP_addJob_Push_Front ==
    /\ cpc = "add_push"
    /\ mJobsQueue' = <<Len(jobKind) + 1>> \o mJobsQueue
    /\ jobKind' = Append(jobKind, carg)
    /\ NotifyOne(mJobAvailableCV, mJobAvailableCV')
    /\ mJobsQueueMutex' = NoThread
    /\ cpc' = "idle"
    /\ UNCHANGED <<jcVars, numWorkers, workerVars, mTerminate, mNumBusyThreads,
                   mCompletionCV, execVars, carg, joined, popLog, runs, finished,
                   lCounter, spurious, assertFail>>

\* mJobsQueue.push(pJob); mJobAvailableCV.notify_one(); ~lock_guard
TP_addJob_Push ==
    /\ cpc = "add_push"
    /\ mJobsQueue' = Append(mJobsQueue, Len(jobKind) + 1)
    /\ jobKind' = Append(jobKind, carg)
    /\ NotifyOne(mJobAvailableCV, mJobAvailableCV')
    /\ mJobsQueueMutex' = NoThread
    /\ cpc' = "idle"
    /\ UNCHANGED <<jcVars, numWorkers, workerVars, mTerminate, mNumBusyThreads,
                   mCompletionCV, execVars, carg, joined, popLog, runs, finished,
                   lCounter, spurious, assertFail>>

\* ------------------------------------------- ThreadPool::waitForCompletion
TP_wait_Lock ==
    /\ cpc = "idle"
    /\ mJobsQueueMutex = NoThread
    /\ mJobsQueueMutex' = Client
    /\ cpc' = "wfc_check"
    /\ UNCHANGED <<jcVars, numWorkers, workerVars, mJobsQueue, mTerminate, mNumBusyThreads,
                   mJobAvailableCV, mCompletionCV, execVars, carg, joined, histVars,
                   spurious, assertFail>>

\* the loop condition, evaluated with the mutex held; a false condition
\* leaves the function, which releases the mutex
TP_wait_Check ==
    /\ cpc = "wfc_check"
    /\ IF DrainMustWait(mJobsQueue, mNumBusyThreads)
       THEN /\ cpc' = "wfc_wait"
            /\ UNCHANGED mJobsQueueMutex
       ELSE /\ cpc' = "wfc_ret"
            /\ mJobsQueueMutex' = NoThread
    /\ UNCHANGED <<jcVars, numWorkers, workerVars, mJobsQueue, mTerminate, mNumBusyThreads,
                   mJobAvailableCV, mCompletionCV, execVars, carg, joined, histVars,
                   spurious, assertFail>>

\* mCompletionCV.wait(lLock): release the mutex and block, atomically
TP_wait_Wait ==
    /\ cpc = "wfc_wait"
    /\ mJobsQueueMutex' = NoThread
    /\ mCompletionCV' = mCompletionCV \cup {Client}
    /\ cpc' = "wfc_blocked"
    /\ UNCHANGED <<jcVars, numWorkers, workerVars, mJobsQueue, mTerminate, mNumBusyThreads,
                   mJobAvailableCV, execVars, carg, joined, histVars, spurious,
                   assertFail>>

\* woken: reacquire the mutex and evaluate the loop condition again
TP_wait_Wake ==
    /\ cpc = "wfc_blocked"
    /\ Client \notin mCompletionCV
    /\ mJobsQueueMutex = NoThread
    /\ mJobsQueueMutex' = Client
    /\ cpc' = "wfc_check"
    /\ UNCHANGED <<jcVars, numWorkers, workerVars, mJobsQueue, mTerminate, mNumBusyThreads,
                   mJobAvailableCV, mCompletionCV, execVars, carg, joined, histVars,
                   spurious, assertFail>>

TP_wait_Return ==
    /\ cpc = "wfc_ret"
    /\ cpc' = "idle"
    /\ UNCHANGED <<jcVars, numWorkers, workerVars, poolVars, execVars, carg, joined,
                   histVars, spurious, assertFail>>

\* ------------------------------------------ ThreadPoolJobsExecutor::addJob
EX_addJob_Lock(e) ==
    /\ cpc = "idle"
    /\ Len(jobKind) < MaxJobs
    /\ mMutex[e] = NoThread
    /\ mMutex' = [mMutex EXCEPT ![e] = Client]
    /\ cpc' = "ex_inc"
    /\ carg' = e
    /\ UNCHANGED <<jcVars, numWorkers, workerVars, poolVars, mNumJobs, mCompletion, joined,
                   histVars, spurious, assertFail>>

\* ++mNumJobs; the block ends and releases mMutex; mTP.addJob follows
EX_addJob_Inc ==
    /\ cpc = "ex_inc"
    /\ mNumJobs' = [mNumJobs EXCEPT ![carg] = @ + 1]
    /\ mMutex' = [mMutex EXCEPT ![carg] = NoThread]
    /\ cpc' = "ex_submit"
    /\ UNCHANGED <<jcVars, numWorkers, workerVars, poolVars, mCompletion, carg, joined,
                   histVars, spurious, assertFail>>

\* ------------------------------- ThreadPoolJobsExecutor::waitForCompletion
EX_wait_Lock(e) ==
    /\ cpc = "idle"
    /\ mMutex[e] = NoThread
    /\ mMutex' = [mMutex EXCEPT ![e] = Client]
    /\ cpc' = "exw_check"
    /\ carg' = e
    /\ UNCHANGED <<jcVars, numWorkers, workerVars, poolVars, mNumJobs, mCompletion, joined,
                   histVars, spurious, assertFail>>

EX_wait_Check ==
    /\ cpc = "exw_check"
    /\ IF ExecutorDone(mNumJobs[carg])
       THEN /\ cpc' = "exw_ret"
            /\ mMutex' = [mMutex EXCEPT ![carg] = NoThread]
       ELSE /\ cpc' = "exw_wait"
            /\ UNCHANGED mMutex
    /\ UNCHANGED <<jcVars, numWorkers, workerVars, poolVars, mNumJobs, mCompletion, carg,
                   joined, histVars, spurious, assertFail>>

EX_wait_Wait ==
    /\ cpc = "exw_wait"
    /\ mMutex' = [mMutex EXCEPT ![carg] = NoThread]
    /\ mCompletion' = [mCompletion EXCEPT ![carg] = @ \cup {Client}]
    /\ cpc' = "exw_blocked"
    /\ UNCHANGED <<jcVars, numWorkers, workerVars, poolVars, mNumJobs, carg, joined,
                   histVars, spurious, assertFail>>

\* mutant: mCompletion.wait(lLock) without its predicate: a woken waiter
\* returns without looking at mNumJobs again
EX_wait_Wake_NoRecheck ==
    /\ cpc = "exw_blocked"
    /\ Client \notin mCompletion[carg]
    /\ mMutex[carg] = NoThread
    /\ cpc' = "exw_ret"
    /\ UNCHANGED <<jcVars, numWorkers, workerVars, poolVars, execVars, carg, joined,
                   histVars, spurious, assertFail>>

EX_wait_Wake ==
    /\ cpc = "exw_blocked"
    /\ Client \notin mCompletion[carg]
    /\ mMutex[carg] = NoThread
    /\ mMutex' = [mMutex EXCEPT ![carg] = Client]
    /\ cpc' = "exw_check"
    /\ UNCHANGED <<jcVars, numWorkers, workerVars, poolVars, mNumJobs, mCompletion, carg,
                   joined, histVars, spurious, assertFail>>

EX_wait_Return ==
    /\ cpc = "exw_ret"
    /\ cpc' = "idle"
    /\ UNCHANGED <<jcVars, numWorkers, workerVars, poolVars, execVars, carg, joined,
                   histVars, spurious, assertFail>>

\* --------------------------------------------------- ThreadPool::~ThreadPool
\* mTerminate = true: an atomic store, the mutex is not taken
D_SetTerminate ==
    /\ cpc = "idle"
    /\ mTerminate' = TRUE
    /\ cpc' = "d_notify"
    /\ UNCHANGED <<jcVars, numWorkers, workerVars, mJobsQueue, mNumBusyThreads,
                   mJobsQueueMutex, mJobAvailableCV, mCompletionCV, execVars, carg,
                   joined, histVars, spurious, assertFail>>

D_NotifyAll ==
    /\ cpc = "d_notify"
    /\ mJobAvailableCV' = NotifyAll(mJobAvailableCV)
    /\ cpc' = "d_join"
    /\ UNCHANGED <<jcVars, numWorkers, workerVars, mJobsQueue, mTerminate, mNumBusyThreads,
                   mJobsQueueMutex, mCompletionCV, execVars, carg, joined, histVars,
                   spurious, assertFail>>

\* t.join() of the next thread of mThreads returns once that thread has ended
D_Join ==
    /\ cpc = "d_join"
    /\ joined < numWorkers
    /\ wpc[joined + 1] = "stopped"
    /\ joined' = joined + 1
    /\ UNCHANGED <<jcVars, numWorkers, workerVars, poolVars, execVars, cpc, carg, histVars,
                   spurious, assertFail>>

\* assert(mNumBusyThreads == 0)
D_Assert ==
    /\ cpc = "d_join"
    /\ joined = numWorkers
    /\ assertFail' = IF mNumBusyThreads = 0 THEN assertFail
                     ELSE assertFail \cup {"busy_at_destruction"}
    /\ cpc' = "destroyed"
    /\ UNCHANGED <<jcVars, numWorkers, workerVars, poolVars, execVars, carg, joined,
                   histVars, spurious>>


\* ------------------------------------------------ ThreadPool::threadExecLoop
\* while (!mTerminate): an atomic load, the mutex is not held
W_LoopTest(w) ==
    /\ wpc[w] = "loop"
    /\ wpc' = [wpc EXCEPT ![w] = IF mTerminate THEN "stopped" ELSE "grab_lock"]
    /\ UNCHANGED <<jcVars, numWorkers, wjob, poolVars, execVars, clientVars, histVars,
                   spurious, assertFail>>

\* -------------------------------------------------- ThreadPool::grabNextJob
\* mutant: the worker waits before it looks at the queue
W_GrabLock_WaitFirst(w) ==
    /\ wpc[w] = "grab_lock"
    /\ mJobsQueueMutex = NoThread
    /\ mJobsQueueMutex' = w
    /\ wpc' = [wpc EXCEPT ![w] = "grab_wait"]
    /\ UNCHANGED <<jcVars, numWorkers, wjob, mJobsQueue, mTerminate, mNumBusyThreads,
                   mJobAvailableCV, mCompletionCV, execVars, clientVars, histVars,
                   spurious, assertFail>>

\* std::unique_lock<std::mutex> lLock(mJobsQueueMutex)
W_GrabLock(w) ==
    /\ wpc[w] = "grab_lock"
    /\ mJobsQueueMutex = NoThread
    /\ mJobsQueueMutex' = w
    /\ wpc' = [wpc EXCEPT ![w] = "grab_pred"]
    /\ UNCHANGED <<jcVars, numWorkers, wjob, mJobsQueue, mTerminate, mNumBusyThreads,
                   mJobAvailableCV, mCompletionCV, execVars, clientVars, histVars,
                   spurious, assertFail>>

\* wait(lLock, pred) is while (!pred()) wait(lLock): the predicate, evaluated
\* with the mutex held
W_GrabPred(w) ==
    /\ wpc[w] = "grab_pred"
    /\ wpc' = [wpc EXCEPT ![w] = IF JobAvailable(mJobsQueue, mTerminate)
                                 THEN "grab_inc" ELSE "grab_wait"]
    /\ UNCHANGED <<jcVars, numWorkers, wjob, poolVars, execVars, clientVars, histVars,
                   spurious, assertFail>>

\* mJobAvailableCV.wait(lLock): release the mutex and block, atomically
W_GrabWait(w) ==
    /\ wpc[w] = "grab_wait"
    /\ mJobsQueueMutex' = NoThread
    /\ mJobAvailableCV' = mJobAvailableCV \cup {w}
    /\ wpc' = [wpc EXCEPT ![w] = "grab_blocked"]
    /\ UNCHANGED <<jcVars, numWorkers, wjob, mJobsQueue, mTerminate, mNumBusyThreads,
                   mCompletionCV, execVars, clientVars, histVars, spurious,
                   assertFail>>

\* mutant: mJobAvailableCV.wait(lLock) without its predicate: a woken worker
\* goes on without looking at the queue again
W_GrabWake_NoRecheck(w) ==
    /\ wpc[w] = "grab_blocked"
    /\ w \notin mJobAvailableCV
    /\ mJobsQueueMutex = NoThread
    /\ mJobsQueueMutex' = w
    /\ wpc' = [wpc EXCEPT ![w] = "grab_inc"]
    /\ UNCHANGED <<jcVars, numWorkers, wjob, mJobsQueue, mTerminate, mNumBusyThreads,
                   mJobAvailableCV, mCompletionCV, execVars, clientVars, histVars,
                   spurious, assertFail>>

\* woken: reacquire the mutex and evaluate the predicate again
W_GrabWake(w) ==
    /\ wpc[w] = "grab_blocked"
    /\ w \notin mJobAvailableCV
    /\ mJobsQueueMutex = NoThread
    /\ mJobsQueueMutex' = w
    /\ wpc' = [wpc EXCEPT ![w] = "grab_pred"]
    /\ UNCHANGED <<jcVars, numWorkers, wjob, mJobsQueue, mTerminate, mNumBusyThreads,
                   mJobAvailableCV, mCompletionCV, execVars, clientVars, histVars,
                   spurious, assertFail>>

\* mutant: the increment of mNumBusyThreads is left out
W_GrabInc_Forgotten(w) ==
    /\ wpc[w] = "grab_inc"
    /\ wpc' = [wpc EXCEPT ![w] = "grab_take"]
    /\ UNCHANGED <<jcVars, numWorkers, wjob, poolVars, execVars, clientVars, histVars,
                   spurious, assertFail>>

\* mutant: the increment is skipped when terminating, the decrement is not
W_GrabInc_UnlessTerminating(w) ==
    /\ wpc[w] = "grab_inc"
    /\ mNumBusyThreads' = IF mTerminate THEN mNumBusyThreads ELSE mNumBusyThreads + 1
    /\ wpc' = [wpc EXCEPT ![w] = "grab_take"]
    /\ UNCHANGED <<jcVars, numWorkers, wjob, mJobsQueue, mTerminate, mJobsQueueMutex,
                   mJobAvailableCV, mCompletionCV, execVars, clientVars, histVars,
                   spurious, assertFail>>

\* ++mNumBusyThreads, whatever mTerminate is
W_GrabInc(w) ==
    /\ wpc[w] = "grab_inc"
    /\ mNumBusyThreads' = mNumBusyThreads + 1
    /\ wpc' = [wpc EXCEPT ![w] = "grab_take"]
    /\ UNCHANGED <<jcVars, numWorkers, wjob, mJobsQueue, mTerminate, mJobsQueueMutex,
                   mJobAvailableCV, mCompletionCV, execVars, clientVars, histVars,
                   spurious, assertFail>>

\* mutant: the front job is copied and left in the queue
W_GrabTake_NoPop(w) ==
    /\ wpc[w] = "grab_take"
    /\ IF ~mTerminate /\ mJobsQueue # <<>>
       THEN /\ wjob' = [wjob EXCEPT ![w] = Head(mJobsQueue)]
            /\ popLog' = Append(popLog, Head(mJobsQueue))
       ELSE /\ wjob' = [wjob EXCEPT ![w] = EmptyJob]
            /\ UNCHANGED popLog
    /\ mJobsQueueMutex' = NoThread
    /\ wpc' = [wpc EXCEPT ![w] = "exec"]
    /\ UNCHANGED <<jcVars, numWorkers, mJobsQueue, mTerminate, mNumBusyThreads,
                   mJobAvailableCV, mCompletionCV, execVars, clientVars, jobKind, runs,
                   finished, lCounter, spurious, assertFail>>

\* mutant: grabNextJob returns with the mutex still held
W_GrabTake_KeepLock(w) ==
    /\ wpc[w] = "grab_take"
    /\ IF ~mTerminate /\ mJobsQueue # <<>>
       THEN /\ wjob' = [wjob EXCEPT ![w] = Head(mJobsQueue)]
            /\ mJobsQueue' = Tail(mJobsQueue)
            /\ popLog' = Append(popLog, Head(mJobsQueue))
       ELSE /\ wjob' = [wjob EXCEPT ![w] = EmptyJob]
            /\ UNCHANGED <<mJobsQueue, popLog>>
    /\ wpc' = [wpc EXCEPT ![w] = "exec"]
    /\ UNCHANGED <<jcVars, numWorkers, mTerminate, mNumBusyThreads, mJobsQueueMutex,
                   mJobAvailableCV, mCompletionCV, execVars, clientVars, jobKind, runs,
                   finished, lCounter, spurious, assertFail>>

\* mutant: the front job is popped before mTerminate is looked at, and
\* dropped when terminating
W_GrabTake_PopFirst(w) ==
    /\ wpc[w] = "grab_take"
    /\ IF mJobsQueue # <<>>
       THEN /\ wjob' = [wjob EXCEPT ![w] = IF mTerminate THEN EmptyJob
                                           ELSE Head(mJobsQueue)]
            /\ mJobsQueue' = Tail(mJobsQueue)
            /\ popLog' = Append(popLog, Head(mJobsQueue))
       ELSE /\ wjob' = [wjob EXCEPT ![w] = EmptyJob]
            /\ UNCHANGED <<mJobsQueue, popLog>>
    /\ mJobsQueueMutex' = NoThread
    /\ wpc' = [wpc EXCEPT ![w] = "exec"]
    /\ UNCHANGED <<jcVars, numWorkers, mTerminate, mNumBusyThreads, mJobAvailableCV,
                   mCompletionCV, execVars, clientVars, jobKind, runs, finished,
                   lCounter, spurious, assertFail>>

\* if (!mTerminate) { assert(!empty); swap(front); pop } else lJob = []{};
\* return lJob releases the mutex.  front() of an empty queue is undefined:
\* the worker is left with no callable at all.
W_GrabTake(w) ==
    /\ wpc[w] = "grab_take"
    /\ IF ~mTerminate
       THEN IF mJobsQueue # <<>>
            THEN /\ wjob' = [wjob EXCEPT ![w] = Head(mJobsQueue)]
                 /\ mJobsQueue' = Tail(mJobsQueue)
                 /\ popLog' = Append(popLog, Head(mJobsQueue))
                 /\ UNCHANGED assertFail
            ELSE /\ wjob' = [wjob EXCEPT ![w] = NoJob]
                 /\ assertFail' = assertFail \cup {"pop_empty_queue"}
                 /\ UNCHANGED <<mJobsQueue, popLog>>
       ELSE /\ wjob' = [wjob EXCEPT ![w] = EmptyJob]
            /\ UNCHANGED <<mJobsQueue, popLog, assertFail>>
    /\ mJobsQueueMutex' = NoThread
    /\ wpc' = [wpc EXCEPT ![w] = "exec"]
    /\ UNCHANGED <<jcVars, numWorkers, mTerminate, mNumBusyThreads, mJobAvailableCV,
                   mCompletionCV, execVars, clientVars, jobKind, runs, finished,
                   lCounter, spurious>>

\* lJob(): the caller's body runs (it increments the counter of its kind).
\* A job submitted directly then returns; the wrapper lambda of
\* ThreadPoolJobsExecutor::addJob goes on to lock the executor's mMutex.
W_RunJob(w) ==
    /\ wpc[w] = "exec"
    /\ IF wjob[w] \in 1..Len(jobKind)
       THEN /\ runs' = [runs EXCEPT ![wjob[w]] = @ + 1]
            /\ lCounter' = [lCounter EXCEPT ![jobKind[wjob[w]]] = @ + 1]
            /\ IF jobKind[wjob[w]] = Direct
               THEN /\ finished' = [finished EXCEPT ![wjob[w]] = @ + 1]
                    /\ wpc' = [wpc EXCEPT ![w] = "done_lock"]
               ELSE /\ UNCHANGED finished
                    /\ wpc' = [wpc EXCEPT ![w] = "wrap_lock"]
       ELSE /\ wpc' = [wpc EXCEPT ![w] = "done_lock"]
            /\ UNCHANGED <<runs, lCounter, finished>>
    /\ UNCHANGED <<jcVars, numWorkers, wjob, poolVars, execVars, clientVars, jobKind,
                   popLog, spurious, assertFail>>

\* the wrapper lambda: std::unique_lock<std::mutex> lLock(mMutex)
W_WrapLock(w) ==
    /\ wpc[w] = "wrap_lock"
    /\ mMutex[jobKind[wjob[w]]] = NoThread
    /\ mMutex' = [mMutex EXCEPT ![jobKind[wjob[w]]] = w]
    /\ wpc' = [wpc EXCEPT ![w] = "wrap_dec"]
    /\ UNCHANGED <<jcVars, numWorkers, wjob, poolVars, mNumJobs, mCompletion, clientVars,
                   histVars, spurious, assertFail>>

\* mutant: one count shared by the executors: every count is lowered
W_WrapDec_Shared(w) ==
    /\ wpc[w] = "wrap_dec"
    /\ mNumJobs' = [e \in Executors |-> mNumJobs[e] - 1]
    /\ mCompletion' = [e \in Executors |-> NotifyAll(mCompletion[e])]
    /\ mMutex' = [mMutex EXCEPT ![jobKind[wjob[w]]] = NoThread]
    /\ finished' = [finished EXCEPT ![wjob[w]] = @ + 1]
    /\ wpc' = [wpc EXCEPT ![w] = "done_lock"]
    /\ UNCHANGED <<jcVars, numWorkers, wjob, poolVars, clientVars, jobKind, popLog, runs,
                   lCounter, spurious, assertFail>>

\* --mNumJobs; mCompletion.notify_all(); the block and the lambda end
W_WrapDec(w) ==
    /\ wpc[w] = "wrap_dec"
    /\ mNumJobs' = [mNumJobs EXCEPT ![jobKind[wjob[w]]] = @ - 1]
    /\ mCompletion' = [mCompletion EXCEPT ![jobKind[wjob[w]]] = NotifyAll(@)]
    /\ mMutex' = [mMutex EXCEPT ![jobKind[wjob[w]]] = NoThread]
    /\ finished' = [finished EXCEPT ![wjob[w]] = @ + 1]
    /\ wpc' = [wpc EXCEPT ![w] = "done_lock"]
    /\ UNCHANGED <<jcVars, numWorkers, wjob, poolVars, clientVars, jobKind, popLog, runs,
                   lCounter, spurious, assertFail>>

\* threadExecLoop after lJob(): std::unique_lock<std::mutex> lLock(mJobsQueueMutex)
W_DoneLock(w) ==
    /\ wpc[w] = "done_lock"
    /\ mJobsQueueMutex = NoThread
    /\ mJobsQueueMutex' = w
    /\ wpc' = [wpc EXCEPT ![w] = "done_dec"]
    /\ UNCHANGED <<jcVars, numWorkers, wjob, mJobsQueue, mTerminate, mNumBusyThreads,
                   mJobAvailableCV, mCompletionCV, execVars, clientVars, histVars,
                   spurious, assertFail>>

\* mutant: a worker that finds mTerminate set leaves without the decrement
W_DoneDec_UnlessTerminating(w) ==
    /\ wpc[w] = "done_dec"
    /\ mNumBusyThreads' = IF mTerminate THEN mNumBusyThreads ELSE mNumBusyThreads - 1
    /\ mCompletionCV' = NotifyAll(mCompletionCV)
    /\ mJobsQueueMutex' = NoThread
    /\ wjob' = [wjob EXCEPT ![w] = NoJob]
    /\ wpc' = [wpc EXCEPT ![w] = "loop"]
    /\ UNCHANGED <<jcVars, numWorkers, mJobsQueue, mTerminate, mJobAvailableCV, execVars,
                   clientVars, histVars, spurious, assertFail>>

\* mutant: the decrement without mCompletionCV.notify_all()
W_DoneDec_NoNotify(w) ==
    /\ wpc[w] = "done_dec"
    /\ mNumBusyThreads' = mNumBusyThreads - 1
    /\ mJobsQueueMutex' = NoThread
    /\ wjob' = [wjob EXCEPT ![w] = NoJob]
    /\ wpc' = [wpc EXCEPT ![w] = "loop"]
    /\ UNCHANGED <<jcVars, numWorkers, mJobsQueue, mTerminate, mJobAvailableCV,
                   mCompletionCV, execVars, clientVars, histVars, spurious,
                   assertFail>>

\* --mNumBusyThreads; mCompletionCV.notify_all(); the block ends
W_DoneDec(w) ==
    /\ wpc[w] = "done_dec"
    /\ mNumBusyThreads' = mNumBusyThreads - 1
    /\ mCompletionCV' = NotifyAll(mCompletionCV)
    /\ mJobsQueueMutex' = NoThread
    /\ wjob' = [wjob EXCEPT ![w] = NoJob]
    /\ wpc' = [wpc EXCEPT ![w] = "loop"]
    /\ UNCHANGED <<jcVars, numWorkers, mJobsQueue, mTerminate, mJobAvailableCV, execVars,
                   clientVars, histVars, spurious, assertFail>>

\* ------------------------------------------- std::condition_variable::wait
\* wait may return without a notification
SpuriousWakeup ==
    /\ spurious < MaxSpurious
    /\ spurious' = spurious + 1
    /\ \/ /\ \E w \in mJobAvailableCV : mJobAvailableCV' = mJobAvailableCV \ {w}
          /\ UNCHANGED <<mCompletionCV, mCompletion>>
       \/ /\ mCompletionCV # {}
          /\ mCompletionCV' = {}
          /\ UNCHANGED <<mJobAvailableCV, mCompletion>>
       \/ /\ \E e \in Executors :
                /\ mCompletion[e] # {}
                /\ mCompletion' = [mCompletion EXCEPT ![e] = {}]
          /\ UNCHANGED <<mJobAvailableCV, mCompletionCV>>
    /\ UNCHANGED <<jcVars, numWorkers, workerVars, mJobsQueue, mTerminate, mNumBusyThreads,
                   mJobsQueueMutex, mNumJobs, mMutex, clientVars, histVars,
                   assertFail>>

\* -------------------------------------------------------------------- Next
ClientStep ==
    \/ TP_addJob_Lock
    \/ TP_addJob_Push
    \/ TP_wait_Lock
    \/ TP_wait_Check
    \/ TP_wait_Wait
    \/ TP_wait_Wake
    \/ TP_wait_Return
    \/ \E e \in Executors : EX_addJob_Lock(e)
    \/ EX_addJob_Inc
    \/ \E e \in Executors : EX_wait_Lock(e)
    \/ EX_wait_Check
    \/ EX_wait_Wait
    \/ EX_wait_Wake
    \/ EX_wait_Return
    \/ D_SetTerminate
    \/ D_NotifyAll
    \/ D_Join
    \/ D_Assert

WorkerStep(w) ==
    \/ W_LoopTest(w)
    \/ W_GrabLock(w)
    \/ W_GrabPred(w)
    \/ W_GrabWait(w)
    \/ W_GrabWake(w)
    \/ W_GrabInc(w)
    \/ W_GrabTake(w)
    \/ W_RunJob(w)
    \/ W_WrapLock(w)
    \/ W_WrapDec(w)
    \/ W_DoneLock(w)
    \/ W_DoneDec(w)

Next ==
    \/ ClientStep
    \/ \E w \in Workers : WorkerStep(w)
    \/ SpuriousWakeup

Spec == Init /\ [][Next]_vars


\* ============================================== cpp/thread_pool.hpp
\* The ThreadPool of cpp/thread_pool.hpp: the same members and the same
\* client, no executors.  It differs from the pool above in its constructor
\* (mNumBusyThreads has no initializer), in waitForCompletion (&&), in
\* threadExecLoop (the decrement and the notify_all are made without the
\* mutex) and in its destructor (no assert).
CppIndeterminate == -1..1

\* ThreadPool(pNumThreads): mTerminate(false); mNumBusyThreads is a
\* default-constructed std::atomic_int, whose value is indeterminate
CppInit ==
    /\ numWorkers \in 1..MaxWorkers
    /\ wpc = [w \in 1..numWorkers |-> "loop"]
    /\ wjob = [w \in 1..numWorkers |-> NoJob]
    /\ mJobsQueue = <<>>
    /\ mTerminate = FALSE
    /\ mNumBusyThreads \in CppIndeterminate
    /\ mJobsQueueMutex = NoThread
    /\ mJobAvailableCV = {}
    /\ mCompletionCV = {}
    /\ mNumJobs = [e \in Executors |-> 0]
    /\ mMutex = [e \in Executors |-> NoThread]
    /\ mCompletion = [e \in Executors |-> {}]
    /\ cpc = "idle"
    /\ carg = Direct
    /\ joined = 0
    /\ jobKind = <<>>
    /\ popLog = <<>>
    /\ runs = [j \in 1..MaxJobs |-> 0]
    /\ finished = [j \in 1..MaxJobs |-> 0]
    /\ lCounter = [k \in JobKinds |-> 0]
    /\ spurious = 0
    /\ assertFail = {}
    /\ JC_Constructed
    /\ jcIncLeft = 0
    /\ jcDecLeft = 0

\* waitForCompletion: while (mJobsQueue.size() > 0 && mNumBusyThreads > 0)
CppDrainMustWait(q, busy) == Len(q) > 0 /\ busy > 0

\* the loop condition, evaluated with the mutex held
Cpp_TP_wait_Check ==
    /\ cpc = "wfc_check"
    /\ IF CppDrainMustWait(mJobsQueue, mNumBusyThreads)
       THEN /\ cpc' = "wfc_wait"
            /\ UNCHANGED mJobsQueueMutex
       ELSE /\ cpc' = "wfc_ret"
            /\ mJobsQueueMutex' = NoThread
    /\ UNCHANGED <<jcVars, numWorkers, workerVars, mJobsQueue, mTerminate,
                   mNumBusyThreads, mJobAvailableCV, mCompletionCV, execVars, carg,
                   joined, histVars, spurious, assertFail>>

\* threadExecLoop: lJob()
Cpp_W_RunJob(w) ==
    /\ wpc[w] = "exec"
    /\ IF wjob[w] \in 1..Len(jobKind)
       THEN /\ runs' = [runs EXCEPT ![wjob[w]] = @ + 1]
            /\ lCounter' = [lCounter EXCEPT ![jobKind[wjob[w]]] = @ + 1]
            /\ finished' = [finished EXCEPT ![wjob[w]] = @ + 1]
       ELSE UNCHANGED <<runs, lCounter, finished>>
    /\ wpc' = [wpc EXCEPT ![w] = "cpp_dec"]
    /\ UNCHANGED <<jcVars, numWorkers, wjob, poolVars, execVars, clientVars, jobKind,
                   popLog, spurious, assertFail>>

\* threadExecLoop: --mNumBusyThreads, an atomic decrement, the mutex is not held
Cpp_W_Dec(w) ==
    /\ wpc[w] = "cpp_dec"
    /\ mNumBusyThreads' = mNumBusyThreads - 1
    /\ wpc' = [wpc EXCEPT ![w] = "cpp_notify"]
    /\ UNCHANGED <<jcVars, numWorkers, wjob, mJobsQueue, mTerminate, mJobsQueueMutex,
                   mJobAvailableCV, mCompletionCV, execVars, clientVars, histVars,
                   spurious, assertFail>>

\* threadExecLoop: mCompletionCV.notify_all(), the mutex is not held
Cpp_W_Notify(w) ==
    /\ wpc[w] = "cpp_notify"
    /\ mCompletionCV' = NotifyAll(mCompletionCV)
    /\ wjob' = [wjob EXCEPT ![w] = NoJob]
    /\ wpc' = [wpc EXCEPT ![w] = "loop"]
    /\ UNCHANGED <<jcVars, numWorkers, mJobsQueue, mTerminate, mNumBusyThreads,
                   mJobsQueueMutex, mJobAvailableCV, execVars, clientVars, histVars,
                   spurious, assertFail>>

\* ~ThreadPool: the last join has returned
Cpp_D_Done ==
    /\ cpc = "d_join"
    /\ joined = numWorkers
    /\ cpc' = "destroyed"
    /\ UNCHANGED <<jcVars, numWorkers, workerVars, poolVars, execVars, carg, joined,
                   histVars, spurious, assertFail>>

CppClientStep ==
    \/ TP_addJob_Lock
    \/ TP_addJob_Push
    \/ TP_wait_Lock
    \/ Cpp_TP_wait_Check
    \/ TP_wait_Wait
    \/ TP_wait_Wake
    \/ TP_wait_Return
    \/ D_SetTerminate
    \/ D_NotifyAll
    \/ D_Join
    \/ Cpp_D_Done

CppWorkerStep(w) ==
    \/ W_LoopTest(w)
    \/ W_GrabLock(w)
    \/ W_GrabPred(w)
    \/ W_GrabWait(w)
    \/ W_GrabWake(w)
    \/ W_GrabInc(w)
    \/ W_GrabTake(w)
    \/ Cpp_W_RunJob(w)
    \/ Cpp_W_Dec(w)
    \/ Cpp_W_Notify(w)

CppNext ==
    \/ CppClientStep
    \/ \E w \in Workers : CppWorkerStep(w)
    \/ SpuriousWakeup

CppSpec == CppInit /\ [][CppNext]_vars

\* ================================================ jobs that call addJob
\* The pool with jobs whose body calls addJob on the pool that runs them:
\* the job submits one child job, submitted directly, and returns.
SpawnKind == "spawn"

IsSpawnJob(w) == wjob[w] \in 1..Len(jobKind) /\ jobKind[wjob[w]] = SpawnKind

\* the children that the submitted jobs have still to add
PendingChildren ==
    Cardinality({j \in 1..Len(jobKind) : jobKind[j] = SpawnKind /\ finished[j] = 0})

\* addJob called by the client: std::lock_guard lLock(mJobsQueueMutex).
\* The job is a plain one or one that adds a child (MaxJobs bounds the
\* jobs, children included).
Spawn_addJob_Lock ==
    /\ cpc = "idle"
    /\ \/ /\ Len(jobKind) + PendingChildren + 1 <= MaxJobs
          /\ carg' = Direct
       \/ /\ Len(jobKind) + PendingChildren + 2 <= MaxJobs
          /\ carg' = SpawnKind
    /\ mJobsQueueMutex = NoThread
    /\ mJobsQueueMutex' = Client
    /\ cpc' = "add_push"
    /\ UNCHANGED <<jcVars, numWorkers, workerVars, mJobsQueue, mTerminate, mNumBusyThreads,
                   mJobAvailableCV, mCompletionCV, execVars, joined, histVars,
                   spurious, assertFail>>

\* lJob() for a job that does not call addJob
Spawn_W_RunJob(w) ==
    /\ ~IsSpawnJob(w)
    /\ W_RunJob(w)

\* lJob() for a job that calls addJob: its body starts and takes
\* std::lock_guard lLock(mJobsQueueMutex)
Spawn_W_addJob_Lock(w) ==
    /\ wpc[w] = "exec"
    /\ IsSpawnJob(w)
    /\ mJobsQueueMutex = NoThread
    /\ mJobsQueueMutex' = w
    /\ runs' = [runs EXCEPT ![wjob[w]] = @ + 1]
    /\ wpc' = [wpc EXCEPT ![w] = "spawn_push"]
    /\ UNCHANGED <<jcVars, numWorkers, wjob, mJobsQueue, mTerminate, mNumBusyThreads,
                   mJobAvailableCV, mCompletionCV, execVars, clientVars, jobKind, popLog,
                   finished, lCounter, spurious, assertFail>>

\* mJobsQueue.push(pJob); mJobAvailableCV.notify_one(); ~lock_guard; the
\* body of the calling job returns
Spawn_W_addJob_Push(w) ==
    /\ wpc[w] = "spawn_push"
    /\ mJobsQueue' = Append(mJobsQueue, Len(jobKind) + 1)
    /\ jobKind' = Append(jobKind, Direct)
    /\ NotifyOne(mJobAvailableCV, mJobAvailableCV')
    /\ mJobsQueueMutex' = NoThread
    /\ finished' = [finished EXCEPT ![wjob[w]] = @ + 1]
    /\ wpc' = [wpc EXCEPT ![w] = "done_lock"]
    /\ UNCHANGED <<jcVars, numWorkers, wjob, mTerminate, mNumBusyThreads, mCompletionCV,
                   execVars, clientVars, popLog, runs, lCounter, spurious, assertFail>>

SpawnClientStep ==
    \/ Spawn_addJob_Lock
    \/ TP_addJob_Push
    \/ TP_wait_Lock
    \/ TP_wait_Check
    \/ TP_wait_Wait
    \/ TP_wait_Wake
    \/ TP_wait_Return
    \/ D_SetTerminate
    \/ D_NotifyAll
    \/ D_Join
    \/ D_Assert

SpawnWorkerStep(w) ==
    \/ W_LoopTest(w)
    \/ W_GrabLock(w)
    \/ W_GrabPred(w)
    \/ W_GrabWait(w)
    \/ W_GrabWake(w)
    \/ W_GrabInc(w)
    \/ W_GrabTake(w)
    \/ Spawn_W_RunJob(w)
    \/ Spawn_W_addJob_Lock(w)
    \/ Spawn_W_addJob_Push(w)
    \/ W_DoneLock(w)
    \/ W_DoneDec(w)

SpawnNext ==
    \/ SpawnClientStep
    \/ \E w \in Workers : SpawnWorkerStep(w)
    \/ SpuriousWakeup

SpawnSpec == Init /\ [][SpawnNext]_vars

\* a client call in progress goes on, every worker goes on
SpawnFairSpec ==
    /\ SpawnSpec
    /\ WF_vars(cpc # "idle" /\ SpawnClientStep)
    /\ \A w \in AllWorkers : WF_vars(w \in Workers /\ SpawnWorkerStep(w))

\* ============================================================ JobCounter
\* A JobCounter used on its own: MaxCallers threads between them make
\* jcIncLeft calls of increment() and jcDecLeft calls of decrement(), in any
\* order and interleaving, and one thread calls waitForCompletion().  A failed
\* assert ends the process: no thread takes another step.
poolFrame == <<numWorkers, workerVars, poolVars, execVars, clientVars, histVars>>

JC_Running == "decrement_at_zero" \notin assertFail

JCInit ==
    /\ PoolConstructed
    /\ numWorkers = 1
    /\ JC_Constructed
    /\ jcIncLeft \in 0..MaxCount
    /\ jcDecLeft = jcIncLeft

\* ---------------------------------------------------- JobCounter::increment
JC_inc_Lock(t) ==
    /\ JC_Running
    /\ jcpc[t] = "idle"
    /\ jcIncLeft > 0
    /\ jcMutex = NoThread
    /\ jcMutex' = t
    /\ jcIncLeft' = jcIncLeft - 1
    /\ jcpc' = [jcpc EXCEPT ![t] = "inc_body"]
    /\ UNCHANGED <<poolFrame, spurious, assertFail, jcNumJobs, jcCompletion, jcwpc,
                   jcDecLeft>>

\* ++mNumJobs; the function returns and releases mMutex
JC_inc_Body(t) ==
    /\ JC_Running
    /\ jcpc[t] = "inc_body"
    /\ jcNumJobs' = jcNumJobs + 1
    /\ jcMutex' = NoThread
    /\ jcpc' = [jcpc EXCEPT ![t] = "idle"]
    /\ UNCHANGED <<poolFrame, spurious, assertFail, jcCompletion, jcwpc, jcIncLeft,
                   jcDecLeft>>

\* ---------------------------------------------------- JobCounter::decrement
JC_dec_Lock(t) ==
    /\ JC_Running
    /\ jcpc[t] = "idle"
    /\ jcDecLeft > 0
    /\ jcMutex = NoThread
    /\ jcMutex' = t
    /\ jcDecLeft' = jcDecLeft - 1
    /\ jcpc' = [jcpc EXCEPT ![t] = "dec_body"]
    /\ UNCHANGED <<poolFrame, spurious, assertFail, jcNumJobs, jcCompletion, jcwpc,
                   jcIncLeft>>

\* mutant: the assert compiled out: the count is lowered whatever it is
JC_dec_Body_NoAssert(t) ==
    /\ JC_Running
    /\ jcpc[t] = "dec_body"
    /\ jcNumJobs' = jcNumJobs - 1
    /\ jcCompletion' = NotifyAll(jcCompletion)
    /\ jcMutex' = NoThread
    /\ jcpc' = [jcpc EXCEPT ![t] = "idle"]
    /\ UNCHANGED <<poolFrame, spurious, assertFail, jcwpc, jcIncLeft, jcDecLeft>>

\* mutant: the decrement without mCompletion.notify_all()
JC_dec_Body_NoNotify(t) ==
    /\ JC_Running
    /\ jcpc[t] = "dec_body"
    /\ IF jcNumJobs > 0
       THEN /\ jcNumJobs' = jcNumJobs - 1
            /\ jcMutex' = NoThread
            /\ jcpc' = [jcpc EXCEPT ![t] = "idle"]
            /\ UNCHANGED assertFail
       ELSE /\ assertFail' = assertFail \cup {"decrement_at_zero"}
            /\ jcpc' = [jcpc EXCEPT ![t] = "aborted"]
            /\ UNCHANGED <<jcNumJobs, jcMutex>>
    /\ UNCHANGED <<poolFrame, spurious, jcCompletion, jcwpc, jcIncLeft, jcDecLeft>>

\* assert(mNumJobs > 0); --mNumJobs; mCompletion.notify_all(); the function
\* returns and releases mMutex
JC_dec_Body(t) ==
    /\ JC_Running
    /\ jcpc[t] = "dec_body"
    /\ IF jcNumJobs > 0
       THEN /\ jcNumJobs' = jcNumJobs - 1
            /\ jcCompletion' = NotifyAll(jcCompletion)
            /\ jcMutex' = NoThread
            /\ jcpc' = [jcpc EXCEPT ![t] = "idle"]
            /\ UNCHANGED assertFail
       ELSE /\ assertFail' = assertFail \cup {"decrement_at_zero"}
            /\ jcpc' = [jcpc EXCEPT ![t] = "aborted"]
            /\ UNCHANGED <<jcNumJobs, jcCompletion, jcMutex>>
    /\ UNCHANGED <<poolFrame, spurious, jcwpc, jcIncLeft, jcDecLeft>>

\* -------------------------------------------- JobCounter::waitForCompletion
JC_wait_Lock ==
    /\ JC_Running
    /\ jcwpc = "idle"
    /\ jcMutex = NoThread
    /\ jcMutex' = JCWaiter
    /\ jcwpc' = "check"
    /\ UNCHANGED <<poolFrame, spurious, assertFail, jcNumJobs, jcCompletion, jcpc,
                   jcIncLeft, jcDecLeft>>

\* the predicate mNumJobs == 0, evaluated with mMutex held; when it is true
\* the function returns and releases mMutex
JC_wait_Check ==
    /\ JC_Running
    /\ jcwpc = "check"
    /\ IF ExecutorDone(jcNumJobs)
       THEN /\ jcwpc' = "ret"
            /\ jcMutex' = NoThread
       ELSE /\ jcwpc' = "wait"
            /\ UNCHANGED jcMutex
    /\ UNCHANGED <<poolFrame, spurious, assertFail, jcNumJobs, jcCompletion, jcpc,
                   jcIncLeft, jcDecLeft>>

\* mCompletion.wait(lLock): release mMutex and block, atomically
JC_wait_Wait ==
    /\ JC_Running
    /\ jcwpc = "wait"
    /\ jcMutex' = NoThread
    /\ jcCompletion' = jcCompletion \cup {JCWaiter}
    /\ jcwpc' = "blocked"
    /\ UNCHANGED <<poolFrame, spurious, assertFail, jcNumJobs, jcpc, jcIncLeft,
                   jcDecLeft>>

\* mutant: mCompletion.wait(lLock) without its predicate: a woken waiter
\* returns without looking at mNumJobs again
JC_wait_Wake_NoRecheck ==
    /\ JC_Running
    /\ jcwpc = "blocked"
    /\ JCWaiter \notin jcCompletion
    /\ jcMutex = NoThread
    /\ jcwpc' = "ret"
    /\ UNCHANGED <<poolFrame, spurious, assertFail, jcNumJobs, jcMutex, jcCompletion,
                   jcpc, jcIncLeft, jcDecLeft>>

\* woken: reacquire mMutex and evaluate the predicate again
JC_wait_Wake ==
    /\ JC_Running
    /\ jcwpc = "blocked"
    /\ JCWaiter \notin jcCompletion
    /\ jcMutex = NoThread
    /\ jcMutex' = JCWaiter
    /\ jcwpc' = "check"
    /\ UNCHANGED <<poolFrame, spurious, assertFail, jcNumJobs, jcCompletion, jcpc,
                   jcIncLeft, jcDecLeft>>

\* the caller goes on, and may call waitForCompletion again
JC_wait_Return ==
    /\ JC_Running
    /\ jcwpc = "ret"
    /\ jcwpc' = "idle"
    /\ UNCHANGED <<poolFrame, spurious, assertFail, jcNumJobs, jcMutex, jcCompletion,
                   jcpc, jcIncLeft, jcDecLeft>>

\* mCompletion.wait may return without a notification
JC_SpuriousWakeup ==
    /\ JC_Running
    /\ spurious < MaxSpurious
    /\ jcCompletion # {}
    /\ jcCompletion' = {}
    /\ spurious' = spurious + 1
    /\ UNCHANGED <<poolFrame, assertFail, jcNumJobs, jcMutex, jcpc, jcwpc, jcIncLeft,
                   jcDecLeft>>

JC_CallerStep(t) ==
    \/ JC_inc_Lock(t)
    \/ JC_inc_Body(t)
    \/ JC_dec_Lock(t)
    \/ JC_dec_Body(t)

JC_WaiterStep ==
    \/ JC_wait_Lock
    \/ JC_wait_Check
    \/ JC_wait_Wait
    \/ JC_wait_Wake
    \/ JC_wait_Return

JCNext ==
    \/ \E t \in JCCallers : JC_CallerStep(t)
    \/ JC_WaiterStep
    \/ JC_SpuriousWakeup

JCSpec == JCInit /\ [][JCNext]_vars

\* every call that can be made is made, every call in progress goes on; the
\* waiter is free never to call waitForCompletion again
JCFairSpec ==
    /\ JCSpec
    /\ \A t \in JCCallers : WF_vars(JC_CallerStep(t))
    /\ WF_vars(jcwpc # "idle" /\ JC_WaiterStep)

\* ---------------------------------------------------------------- fairness
\* Every thread that can take a step eventually takes one; the client is
\* free never to start another call.  A spurious wake-up is never owed.
ClientProgress == cpc # "idle" /\ ClientStep

FairSpec ==
    /\ Spec
    /\ WF_vars(ClientProgress)
    /\ \A w \in AllWorkers : WF_vars(w \in Workers /\ WorkerStep(w))

\* ------------------------------------------------ jobs that do not finish
\* the steps of a worker that are the pool's own: all but the job's body
WorkerPoolStep(w) ==
    \/ W_LoopTest(w)
    \/ W_GrabLock(w)
    \/ W_GrabPred(w)
    \/ W_GrabWait(w)
    \/ W_GrabWake(w)
    \/ W_GrabInc(w)
    \/ W_GrabTake(w)
    \/ W_WrapLock(w)
    \/ W_WrapDec(w)
    \/ W_DoneLock(w)
    \/ W_DoneDec(w)

\* the threads are scheduled fairly, a job body may take for ever
HoldSpec ==
    /\ Spec
    /\ WF_vars(ClientProgress)
    /\ \A w \in AllWorkers : WF_vars(w \in Workers /\ WorkerPoolStep(w))

\* ------------------------------------------------------------ vocabulary
Submitted == 1..Len(jobKind)
JobsOfKind(k) == {j \in Submitted : jobKind[j] = k}
Popped == {popLog[i] : i \in DOMAIN popLog}
\* a worker is inside lJob() with a job taken from the queue
Executing(w) == wpc[w] \in {"exec", "wrap_lock", "wrap_dec"} /\ wjob[w] \in Submitted
InDrain == cpc \in {"wfc_check", "wfc_wait", "wfc_blocked"}

\* C1: ThreadPool::waitForCompletion returns only with the queue empty and
\* the busy count zero, and never while a dequeued job is still executing.
C1_DrainReturnsIdle ==
    cpc = "wfc_ret" =>
        /\ mJobsQueue = <<>>
        /\ mNumBusyThreads = 0
        /\ \A w \in Workers : ~Executing(w)

C1_Witness ==
    /\ cpc = "wfc_ret"
    /\ Len(popLog) = MaxJobs
    /\ spurious = 0

\* C2: after K addJob calls, when waitForCompletion returns every one of the
\* K jobs has run to completion exactly once and the counter equals K.
C2_AllJobsRanOnce ==
    cpc = "wfc_ret" =>
        /\ \A j \in Submitted : runs[j] = 1 /\ finished[j] = 1
        /\ \A k \in JobKinds : lCounter[k] = Cardinality(JobsOfKind(k))

C2_Witness ==
    /\ cpc = "wfc_ret"
    /\ Cardinality(JobsOfKind(Direct)) = MaxJobs
    /\ lCounter[Direct] = MaxJobs
    /\ numWorkers = 1

\* C3: the busy count is 0 right after construction, and a waitForCompletion
\* in progress eventually returns (the jobs terminate, nothing is submitted
\* meanwhile).
C3_DrainIsLive ==
    /\ mNumBusyThreads = 0
    /\ InDrain ~> (cpc = "wfc_ret")

C3_Witness ==
    /\ cpc = "wfc_blocked"
    /\ Client \in mCompletionCV
    /\ mJobsQueue = <<>>
    /\ mNumBusyThreads > 0


\* C4: ThreadPoolJobsExecutor::waitForCompletion returns only with the
\* executor's count at zero: the body of every job submitted through it has
\* run, and the counter of those jobs equals their number.
C4_ExecutorDrainReturnsDone ==
    cpc = "exw_ret" =>
        /\ mNumJobs[carg] = 0
        /\ \A j \in JobsOfKind(carg) : runs[j] = 1
        /\ lCounter[carg] = Cardinality(JobsOfKind(carg))

C4_Witness ==
    /\ cpc = "exw_ret"
    /\ Cardinality(JobsOfKind(carg)) = MaxJobs
    /\ lCounter[carg] = MaxJobs

\* C5: two executors on one pool are independent: an executor's count is
\* lowered only by a worker finishing one of that executor's own jobs, and
\* its waitForCompletion returns exactly on its own count, with none of its
\* own jobs unfinished, whatever the other jobs of the pool are doing.
C5_ExecutorsIndependent ==
    [][ /\ \A e \in Executors :
              mNumJobs'[e] < mNumJobs[e] =>
                  \E w \in Workers : /\ wpc[w] = "wrap_dec"
                                     /\ wpc'[w] = "done_lock"
                                     /\ jobKind[wjob[w]] = e
                                     /\ mNumJobs'[e] = mNumJobs[e] - 1
        /\ (cpc = "exw_check" /\ cpc' = "exw_ret") =>
              \A j \in JobsOfKind(carg) : finished[j] = 1
        /\ (cpc = "exw_check" /\ cpc' = "exw_wait") =>
              \E j \in JobsOfKind(carg) : finished[j] = 0
      ]_vars

\* A's drain has returned while a job of B has not even been popped
C5_Witness ==
    /\ cpc = "exw_ret"
    /\ carg = "A"
    /\ JobsOfKind("A") # {}
    /\ \E j \in JobsOfKind("B") : j \notin Popped

\* C6: with every job of the pool submitted through one executor,
\* getNumBusyThreads() is 0 when that executor's waitForCompletion returns.
C6_BusyZeroAfterExecutorDrain ==
    (cpc = "exw_ret" /\ \A j \in Submitted : jobKind[j] = carg)
        => mNumBusyThreads = 0

\* C7: once the destructor has set mTerminate and called notify_all, every
\* worker stops and the joins complete.
C7_ShutdownTerminates ==
    (cpc = "d_join") ~> (cpc = "destroyed" /\ \A w \in Workers : wpc[w] = "stopped")

\* C8: when the destructor returns every submitted job has run to completion
\* exactly once or was never popped, and a worker that finds mTerminate set
\* at its check under the lock pops nothing.
C8_RunOnceOrNever ==
    /\ [](cpc = "destroyed" =>
            /\ \A w \in Workers : wpc[w] = "stopped"
            /\ \A i, k \in DOMAIN popLog : i # k => popLog[i] # popLog[k]
            /\ \A j \in Submitted :
                  IF j \in Popped
                  THEN runs[j] = 1 /\ finished[j] = 1
                  ELSE runs[j] = 0 /\ finished[j] = 0)
    /\ [][\A w \in Workers :
            (wpc[w] = "grab_take" /\ wpc'[w] = "exec" /\ mTerminate) =>
                /\ mJobsQueue' = mJobsQueue
                /\ popLog' = popLog
                /\ wjob'[w] = EmptyJob]_vars

\* destroyed with one job run and another still in the queue
C8_Witness ==
    /\ cpc = "destroyed"
    /\ mJobsQueue # <<>>
    /\ \E j \in Submitted : finished[j] = 1

\* C9: jobs are popped in the order they were submitted.
C9_FifoDequeue ==
    \A i \in DOMAIN popLog : popLog[i] = i

C9_Witness ==
    /\ Len(popLog) = MaxJobs
    /\ numWorkers = MaxWorkers
    /\ \A w \in Workers : Executing(w)

\* C10: 0 <= mNumBusyThreads <= number of workers, in every state.
C10_BusyInRange ==
    /\ 0 <= mNumBusyThreads
    /\ mNumBusyThreads <= numWorkers

\* every worker counted busy, one of them during shutdown
C10_Witness ==
    /\ mNumBusyThreads = numWorkers
    /\ numWorkers = MaxWorkers
    /\ mTerminate
    /\ \E w \in Workers : wjob[w] = EmptyJob


\* ------------------------------------------------- JobCounter vocabulary
JCInWait == jcwpc \in {"check", "wait", "blocked"}
JCAllCallsDone ==
    /\ jcIncLeft = 0
    /\ jcDecLeft = 0
    /\ \A t \in JCCallers : jcpc[t] = "idle"

\* C11 as stated: C increment() and C decrement() calls, in any interleaving
\* across threads, make a waitForCompletion() call return.
C11_WaitReturnsAnyInterleaving ==
    JCInWait ~> (jcwpc = "ret")

\* C11 as amended: the same, for the interleavings in which no decrement()
\* runs while the count is zero (the assertion of decrement() never fails);
\* the count is then zero once all the calls have been made.
C11_WaitReturnsUnlessViolation ==
    /\ [](JC_Running /\ JCAllCallsDone => jcNumJobs = 0)
    /\ JCInWait ~> (jcwpc = "ret" \/ ~JC_Running)

\* all calls made, the blocked waiter woken by the last decrement()
C11_Witness ==
    /\ JC_Running
    /\ JCAllCallsDone
    /\ jcNumJobs = 0
    /\ jcwpc = "blocked"
    /\ JCWaiter \notin jcCompletion
    /\ spurious = 0

\* C12: the count of a JobCounter is never negative: decrement() at zero
\* fails its assertion and leaves the count alone, decrement() above zero
\* lowers it by exactly one.
C12_CountNeverNegative ==
    /\ [](jcNumJobs >= 0)
    /\ [][\A t \in JCCallers :
            (jcpc[t] = "dec_body" /\ jcpc'[t] # "dec_body") =>
                IF jcNumJobs > 0
                THEN jcNumJobs' = jcNumJobs - 1 /\ JC_Running'
                ELSE jcNumJobs' = jcNumJobs /\ ~JC_Running']_vars

\* a decrement() at zero has been flagged
C12_Witness ==
    /\ ~JC_Running
    /\ jcNumJobs = 0
    /\ \E t \in JCCallers : jcpc[t] = "aborted"

\* C13: JobCounter::waitForCompletion returns only on a count of zero seen
\* with mMutex held, and the decrement() that brings the count to zero wakes
\* every blocked waiter.
C13_WaitReturnsAtZero ==
    [][ /\ (jcwpc # "ret" /\ jcwpc' = "ret") =>
               (jcNumJobs = 0 /\ jcMutex = JCWaiter)
        /\ (jcNumJobs > 0 /\ jcNumJobs' = 0) => jcCompletion' = {}
      ]_vars

\* the waiter blocked on a count above zero, woken with increments to come
C13_Witness ==
    /\ jcwpc = "blocked"
    /\ JCWaiter \notin jcCompletion
    /\ jcNumJobs = 0
    /\ jcIncLeft > 0
    /\ spurious = 0


\* --------------------------------------------------------------- C14..C20
NoneRun == \A j \in 1..MaxJobs : runs[j] = 0

\* C14: with W <= N jobs submitted to N workers and none of them finishing,
\* the busy count eventually reaches exactly W.
C14_BusyReachesW ==
    \A W \in 1..MaxWorkers :
        (/\ cpc = "idle"
         /\ Len(jobKind) = W
         /\ W <= numWorkers
         /\ NoneRun
         /\ ~mTerminate)
        ~> (\/ mNumBusyThreads = W
            \/ ~NoneRun
            \/ Len(jobKind) > W
            \/ mTerminate)

\* as many unfinished jobs as workers, every worker counted busy
C14_Witness ==
    /\ numWorkers = MaxWorkers
    /\ Len(jobKind) = MaxWorkers
    /\ NoneRun
    /\ ~mTerminate
    /\ mNumBusyThreads = MaxWorkers
    /\ cpc = "idle"


\* C15: in cpp/thread_pool.hpp, waitForCompletion returns only with the
\* queue empty and no worker still executing a job.
C15_CppDrainWaits ==
    cpc = "wfc_ret" =>
        /\ mJobsQueue = <<>>
        /\ \A w \in Workers : ~Executing(w)


\* C16: every step that writes the job queue, the busy count or the
\* termination flag is taken by the thread that holds mJobsQueueMutex
\* (the client when cpc moves, a worker when its wpc moves).
C16_WritesUnderMutex ==
    [][(\/ mJobsQueue' # mJobsQueue
        \/ mNumBusyThreads' # mNumBusyThreads
        \/ mTerminate' # mTerminate)
       => \/ cpc' # cpc /\ mJobsQueueMutex = Client
          \/ \E w \in Workers : wpc'[w] # wpc[w] /\ mJobsQueueMutex = w]_vars


\* a worker has popped a job it has not finished with, or holds the lock
\* just before the pop
HoldsPoppedJob(w) ==
    \/ wjob[w] \in Submitted
    \/ wpc[w] = "grab_take" /\ ~mTerminate

\* a worker is between ++mNumBusyThreads and --mNumBusyThreads
Counted(w) ==
    wpc[w] \in {"grab_take", "exec", "wrap_lock", "wrap_dec", "done_lock", "done_dec"}

\* C17 as stated: the busy count is the number of workers that popped a job;
\* a worker that observes the termination flag is not counted.
C17_BusyCountsPoppedJobs ==
    mNumBusyThreads = Cardinality({w \in Workers : HoldsPoppedJob(w)})

\* C17 amended: the busy count is the number of workers between the
\* increment of grabNextJob and the decrement of threadExecLoop, the workers
\* that took the empty job on termination included.
C17_BusyCountsGrabbed ==
    mNumBusyThreads = Cardinality({w \in Workers : Counted(w)})

\* a worker that observed the termination flag runs the empty job, counted busy
C17_Witness ==
    /\ mTerminate
    /\ mNumBusyThreads >= 1
    /\ \E w \in Workers : wpc[w] = "exec" /\ wjob[w] = EmptyJob


\* C18: every job in the queue of a pool that is not being destroyed is
\* eventually executed, or the destruction of the pool begins first.
C18_QueuedJobRuns ==
    \A j \in 1..MaxJobs :
        (\E i \in DOMAIN mJobsQueue : mJobsQueue[i] = j) ~> (runs[j] >= 1 \/ mTerminate)

\* a job waits in the queue while every worker is executing an earlier one
C18_Witness ==
    /\ ~mTerminate
    /\ mJobsQueue # <<>>
    /\ \A w \in Workers : Executing(w)


\* C19: a job that calls addJob on its own pool returns from the call, a
\* waitForCompletion in progress returns, and it returns only when every
\* submitted job, the jobs added by running jobs included, has finished.
C19_NestedAddJob ==
    /\ [](cpc = "wfc_ret" => \A j \in Submitted : finished[j] = 1)
    /\ \A j \in 1..MaxJobs :
          (j \in Submitted /\ jobKind[j] = SpawnKind /\ j \in Popped) ~> (finished[j] = 1)
    /\ InDrain ~> (cpc = "wfc_ret")

\* a running job is inside addJob while the client is blocked in waitForCompletion
C19_Witness ==
    /\ cpc = "wfc_blocked"
    /\ \E w \in Workers : wpc[w] = "spawn_push"


\* C20: assert(mNumBusyThreads == 0) in ~ThreadPool never fails: once the
\* termination flag is set and every worker is joined the busy count is 0.
C20_DestructorAssertHolds ==
    /\ "busy_at_destruction" \notin assertFail
    /\ mTerminate /\ joined = numWorkers => mNumBusyThreads = 0

\* the last join has returned in a pool whose workers have popped jobs
C20_Witness ==
    /\ cpc = "d_join"
    /\ joined = numWorkers
    /\ numWorkers = MaxWorkers
    /\ popLog # <<>>


\* C21: assert(!mJobsQueue.empty()) in grabNextJob never fails: a worker that
\* is past the wait and finds mTerminate clear at its check has a job to pop.
C21_NeverPopsEmpty ==
    /\ "pop_empty_queue" \notin assertFail
    /\ \A w \in Workers :
          wpc[w] = "grab_take" /\ ~mTerminate => mJobsQueue # <<>>

\* a worker is about to pop the only job while another worker, woken for a
\* job already taken or woken spuriously, is waiting for the mutex
C21_Witness ==
    /\ ~mTerminate
    /\ Len(mJobsQueue) = 1
    /\ \E w, v \in Workers :
          /\ w # v
          /\ wpc[w] = "grab_take"
          /\ wpc[v] = "grab_blocked"
          /\ v \notin mJobAvailableCV


\* the jobs that have been popped and have not returned to their worker
InExecution == {j \in Popped : finished[j] = 0}

\* C22: a job is popped by at most one worker and run at most once, at most
\* numWorkers jobs are in execution at a time, and with one worker a job
\* starts only when every job submitted before it has finished.
C22_OnceAndBounded ==
    /\ \A i, k \in DOMAIN popLog : i # k => popLog[i] # popLog[k]
    /\ \A j \in Submitted :
          /\ runs[j] <= 1
          /\ Cardinality({w \in Workers : wjob[w] = j}) <= 1
    /\ Cardinality(InExecution) <= numWorkers
    /\ numWorkers = 1 =>
          /\ Cardinality(InExecution) <= 1
          /\ \A j \in Popped : \A i \in 1..(j - 1) : finished[i] = 1 /\ runs[i] = 1

\* the single worker executes the last job, the earlier ones have finished
C22_Witness ==
    /\ numWorkers = 1
    /\ Len(jobKind) = MaxJobs
    /\ InExecution = {MaxJobs}
    /\ \A j \in 1..(MaxJobs - 1) : finished[j] = 1

====
